---- MODULE Spec2Model ----
(***************************************************************************)
(* A model of the documentation crawler of src/crawl_pydantic_ai_docs.py:  *)
(*   - chunk_text                  (the text chunker, SpecChunk)           *)
(*   - process_chunk               (the chunk enricher, SpecEnrich)        *)
(*   - process_and_store_document  (the document ingestor, SpecIngest)     *)
(*   - crawl_parallel              (the crawl coordinator, Spec/FairSpec)  *)
(* Strings are sequences of one-character strings; Python's 0-based        *)
(* half-open slices are kept (Slice), so offsets read as in the source.    *)
(***************************************************************************)
EXTENDS Integers, Sequences, FiniteSets, TLC

VARIABLES
    \* chunk_text: its arguments, its locals and its position
    text, chunk_size, start, chunks, ck_pc,
    \* process_chunk: its arguments, the replies of the two backends, its locals,
    \* its position and its return value
    en_chunk, en_number, en_url, en_completion, en_reply, en_title, en_summary,
    en_pc, en_result,
    \* process_and_store_document: its argument url (markdown is text, and
    \* chunks the value chunk_text returned), the loop index, the insert_chunk
    \* coroutines collected and those gather has yet to run, its position; and
    \* the store: the chunk numbers of the inserts executed, and the rows it holds
    in_url, in_i, in_tasks, in_pending, in_pc, attempts, store,
    \* crawl_parallel: its arguments (urls as the set of the positions of the
    \* list), its position and whether an exception is propagating; the
    \* Playwright driver, the browser and the browser context; the value of the
    \* semaphore; per URL task its position and its final outcome; the URLs
    \* whose page is open
    urls, max_concurrent, cr_pc, cr_error, playwright, browser, context,
    semaphore, task_pc, outcome, pages

ckVars == <<text, chunk_size, start, chunks, ck_pc>>
enVars == <<en_chunk, en_number, en_url, en_completion, en_reply, en_title,
            en_summary, en_pc, en_result>>
inVars == <<in_url, in_i, in_tasks, in_pending, in_pc, attempts, store>>
crVars == <<urls, max_concurrent, cr_pc, cr_error, playwright, browser, context,
            semaphore, task_pc, outcome, pages>>
vars == <<ckVars, enVars, inVars, crVars>>

----------------------------------------------------------------------------
(* Bounds of the chunker's inputs *)

MaxTextLen == 6
MaxChunkSize == 5

\* "a" stands for any non-whitespace character that is no delimiter, and
\* "#" for the backtick, of which a code fence has three
Alphabet == {"a", "#", ".", " ", "\n"}
Whitespace == {" ", "\n"}

Texts == UNION {[1..n -> Alphabet] : n \in 0..MaxTextLen}

----------------------------------------------------------------------------
(* The str operations of Python *)

Max(a, b) == IF a >= b THEN a ELSE b
Min(a, b) == IF a <= b THEN a ELSE b

\* s[a:b] for 0 <= a, 0 <= b
Slice(s, a, b) == SubSeq(s, a + 1, Min(b, Len(s)))

\* s.rfind(pat): the highest 0-based offset at which pat occurs in s, else -1
RFind(s, pat) ==
    LET hits == {i \in 0..(Len(s) - Len(pat)) : Slice(s, i, i + Len(pat)) = pat}
    IN  IF hits = {} THEN -1 ELSE CHOOSE i \in hits : \A j \in hits : j <= i

\* pat in s
Contains(s, pat) == RFind(s, pat) # -1

\* s.strip()
Strip(s) ==
    LET keep == {i \in 1..Len(s) : s[i] \notin Whitespace}
    IN  IF keep = {} THEN <<>>
        ELSE LET lo == CHOOSE i \in keep : \A j \in keep : i <= j
                 hi == CHOOSE i \in keep : \A j \in keep : j <= i
             IN  SubSeq(s, lo, hi)

Fence == <<"#", "#", "#">>
ParagraphBreak == <<"\n", "\n">>
SentenceBreak == <<".", " ">>

----------------------------------------------------------------------------
(* chunk_text *)

\* a plausible slip: the boundary must lie past half of the window
PastThresholdHalf(offset, size) == 2 * offset > size

\* offset > chunk_size * 0.3 (the float product is exact enough: it never
\* crosses an integer, so the comparison is that of 10 * offset with 3 * size)
PastThreshold(offset, size) == 10 * offset > 3 * size

\* a plausible slip: the delimiters are searched in all the text that is left
\* (text[start:]), not in the window
CutEndUnwindowed(t, s, size) ==
    LET chunk == Slice(t, s, Len(t))
        code_block == RFind(chunk, Fence)
        last_break == RFind(chunk, ParagraphBreak)
        last_period == RFind(chunk, SentenceBreak)
    IN  IF code_block # -1 /\ PastThreshold(code_block, size)
            THEN s + code_block
        ELSE IF Contains(chunk, ParagraphBreak)
            THEN IF PastThreshold(last_break, size) THEN s + last_break ELSE s + size
        ELSE IF Contains(chunk, SentenceBreak)
            THEN IF PastThreshold(last_period, size) THEN s + last_period + 1 ELSE s + size
        ELSE s + size

\* the end of the chunk that starts at s, for a window that does not reach the
\* end of the text (the if / elif / elif of the loop body)
CutEnd(t, s, size) ==
    LET chunk == Slice(t, s, s + size)
        code_block == RFind(chunk, Fence)
        last_break == RFind(chunk, ParagraphBreak)
        last_period == RFind(chunk, SentenceBreak)
    IN  IF code_block # -1 /\ PastThreshold(code_block, size)
            THEN s + code_block
        ELSE IF Contains(chunk, ParagraphBreak)
            THEN IF PastThreshold(last_break, size) THEN s + last_break ELSE s + size
        ELSE IF Contains(chunk, SentenceBreak)
            THEN IF PastThreshold(last_period, size) THEN s + last_period + 1 ELSE s + size
        ELSE s + size

\* a plausible slip: the delimiter is skipped when the scan moves on
NextStartSkips(s, end) == Max(s + 1, end + 1)

\* a plausible slip: the next chunk overlaps the last character of this one
NextStartOverlaps(s, end) == Max(s, end - 1)

\* start = max(start + 1, end)
NextStart(s, end) == Max(s + 1, end)

\* a plausible slip: a window that ends exactly at the end is not the last
ReachesEndStrictly(end, text_length) == end > text_length

\* if end >= text_length: the window reaches the end of the text
ReachesEnd(end, text_length) == end >= text_length

\* if chunk: an empty string is falsy
Emits(chunk) == chunk # <<>>

\* chunk_text is not running
ChunkOff ==
    /\ text = <<>>
    /\ chunk_size = 1
    /\ start = 0
    /\ chunks = <<>>
    /\ ck_pc = "off"

ChunkInit ==
    /\ text \in Texts
    /\ chunk_size \in 1..MaxChunkSize
    /\ start = 0
    /\ chunks = <<>>
    /\ ck_pc = "loop"

\* one iteration of the while loop
ChunkStep ==
    /\ ck_pc = "loop"
    /\ start < Len(text)
    /\ IF ReachesEnd(start + chunk_size, Len(text))
       THEN /\ chunks' = Append(chunks, Strip(Slice(text, start, Len(text))))
            /\ ck_pc' = "done"
            /\ UNCHANGED start
       ELSE LET end == CutEnd(text, start, chunk_size)
                chunk == Strip(Slice(text, start, end))
            IN  /\ chunks' = IF Emits(chunk) THEN Append(chunks, chunk) ELSE chunks
                /\ start' = NextStart(start, end)
                /\ UNCHANGED ck_pc
    /\ UNCHANGED <<text, chunk_size>>
    /\ UNCHANGED <<enVars, inVars, crVars>>

\* the loop condition fails: return chunks
ChunkReturn ==
    /\ ck_pc = "loop"
    /\ start >= Len(text)
    /\ ck_pc' = "done"
    /\ UNCHANGED <<text, chunk_size, start, chunks>>
    /\ UNCHANGED <<enVars, inVars, crVars>>

ChunkNext == ChunkStep \/ ChunkReturn

----------------------------------------------------------------------------
(* get_title_and_summary, get_embedding, process_chunk *)

EmbeddingDim == 1536
MaxChunkNumber == 2

None == [none |-> TRUE]

\* what json.loads can return: a JSON object is the sequence of its
\* <<key, value>> pairs in document order, an array the sequence of its
\* elements, a string the sequence of its characters; a number, a boolean and
\* null are scalars
JsonObject(pairs) == [type |-> "object", items |-> pairs]
JsonArray(elems) == [type |-> "array", items |-> elems]
JsonString(chars) == [type |-> "string", items |-> chars]
JsonScalar == [type |-> "scalar", items |-> <<>>]

ReplyValue(key) ==
    IF key = "title" THEN "T" ELSE IF key = "summary" THEN "S" ELSE "X"

ReplyKeys == {"title", "summary", "extra"}

KeyOrders ==
    {ks \in UNION {[1..n -> ReplyKeys] : n \in 0..3} :
        \A i, j \in 1..Len(ks) : i # j => ks[i] # ks[j]}

JsonValues ==
    {JsonObject([i \in 1..Len(ks) |-> <<ks[i], ReplyValue(ks[i])>>]) : ks \in KeyOrders}
    \cup {JsonArray(SubSeq(<<"T", "S", "X">>, 1, n)) : n \in 0..3}
    \cup {JsonString(SubSeq(<<"a", "b", "c">>, 1, n)) : n \in 2..3}
    \cup {JsonScalar}

\* the outcomes of the call of the text-completion backend and of the parse of
\* its body: the call raises, the body does not parse, or the body parses
CompletionOutcomes ==
    {[kind |-> "raise"], [kind |-> "unparsable"]}
    \cup {[kind |-> "json", value |-> v] : v \in JsonValues}

\* the outcomes of the call of the embedding backend
EmbeddingOutcomes ==
    {[kind |-> "raise"],
     [kind |-> "vector", value |-> [i \in 1..EmbeddingDim |-> 1]],
     [kind |-> "vector", value |-> <<7, 8, 9>>]}

NotCalled == [kind |-> "not called"]

Placeholder ==
    JsonObject(<<<<"title", "Error processing title">>,
                 <<"summary", "Error processing summary">>>>)

\* get_title_and_summary: the parsed body, or the placeholder on any exception
GetTitleAndSummary(reply) ==
    IF reply.kind = "json" THEN reply.value ELSE Placeholder

ZeroVector == [i \in 1..EmbeddingDim |-> 0]

\* get_embedding: the vector of the reply, or the zero vector on any exception
GetEmbedding(reply) ==
    IF reply.kind = "vector" THEN reply.value ELSE ZeroVector

\* what iterating a value yields: the keys of a dict, the elements of a list,
\* the characters of a str
Iterate(v) ==
    IF v.type = "object" THEN [i \in 1..Len(v.items) |-> v.items[i][1]]
    ELSE v.items

\* title, summary = v: raises unless v is iterable and yields exactly two items
UnpackRaises(v) == v.type = "scalar" \/ Len(Iterate(v)) # 2

Urls == {"u1", "u2"}
SampleChunks == {<<"a">>, <<"a", " ", "a">>, <<"#", "#", "#">>}

EnrichIdle ==
    /\ en_completion = NotCalled
    /\ en_reply = NotCalled
    /\ en_title = ""
    /\ en_summary = ""
    /\ en_result = None

\* process_chunk is not running
EnrichOff ==
    /\ en_chunk = <<>>
    /\ en_number = 0
    /\ en_url = ""
    /\ en_pc = "off"
    /\ EnrichIdle

EnrichInit ==
    /\ en_chunk \in SampleChunks
    /\ en_number \in 0..MaxChunkNumber
    /\ en_url \in Urls
    /\ en_pc = "title"
    /\ EnrichIdle

\* await get_title_and_summary(chunk, url) resumes; title, summary = its value;
\* an exception of the unpacking is caught by process_chunk, which returns None
EnrichTitle(outcomes) ==
    /\ en_pc = "title"
    /\ \E reply \in outcomes :
        LET v == GetTitleAndSummary(reply)
        IN  /\ en_completion' = reply
            /\ IF UnpackRaises(v)
               THEN /\ en_result' = None
                    /\ en_pc' = "returned"
                    /\ UNCHANGED <<en_title, en_summary>>
               ELSE /\ en_title' = Iterate(v)[1]
                    /\ en_summary' = Iterate(v)[2]
                    /\ en_pc' = "embedding"
                    /\ UNCHANGED en_result
    /\ UNCHANGED <<en_chunk, en_number, en_url, en_reply>>
    /\ UNCHANGED <<ckVars, inVars, crVars>>

\* await get_embedding(chunk) resumes; process_chunk returns the ProcessedChunk
\* (the timestamp of its metadata is left out)
EnrichEmbedding(outcomes) ==
    /\ en_pc = "embedding"
    /\ \E reply \in outcomes :
        /\ en_reply' = reply
        /\ en_result' =
              [url |-> en_url,
               chunk_number |-> en_number,
               title |-> en_title,
               summary |-> en_summary,
               content |-> en_chunk,
               metadata |-> [source |-> "python_uv_docs", url |-> en_url,
                             chunk_number |-> en_number],
               embedding |-> GetEmbedding(reply)]
    /\ en_pc' = "returned"
    /\ UNCHANGED <<en_chunk, en_number, en_url, en_completion, en_title, en_summary>>
    /\ UNCHANGED <<ckVars, inVars, crVars>>

EnrichNext ==
    \/ EnrichTitle(CompletionOutcomes)
    \/ EnrichEmbedding(EmbeddingOutcomes)

----------------------------------------------------------------------------
(* insert_chunk, process_and_store_document *)

MaxIngestLen == 3
\* the chunk size of the ingestor, scaled down from the default of chunk_text
\* (5000) to the length of the texts of the model
IngestChunkSize == 1

IngestTexts == UNION {[1..n -> {"a", ".", " "}] : n \in 0..MaxIngestLen}

\* the outcomes of the backends that the ingestor is run against
IngestCompletionOutcomes ==
    {[kind |-> "raise"],
     [kind |-> "json", value |-> JsonObject(<<<<"title", "T">>, <<"summary", "S">>>>)],
     [kind |-> "json",
      value |-> JsonObject(<<<<"title", "T">>, <<"summary", "S">>, <<"extra", "X">>>>)]}

IngestEmbeddingOutcomes ==
    {[kind |-> "raise"], [kind |-> "vector", value |-> <<7, 8, 9>>]}

\* if processed: None is falsy, a ProcessedChunk is truthy
Truthy(processed) == processed # None

\* the data insert_chunk hands to the store (created_at is left out)
InsertData(chunk) ==
    [url |-> chunk.url,
     chunk_number |-> chunk.chunk_number,
     title |-> chunk.title,
     summary |-> chunk.summary,
     content |-> chunk.content,
     metadata |-> chunk.metadata,
     embedding |-> chunk.embedding]

\* a plausible slip: enumerate(chunks, 1)
ChunkNumberFromOne(i) == i + 1

\* for i, chunk in enumerate(chunks): the chunk number is the 0-based index
ChunkNumber(i) == i

\* a plausible slip: the inserts are started as tasks when they are created
\* (asyncio.create_task), so they run while the loop is still enriching
InsertsRunEagerly(pc) == pc \in {"loop", "process", "gather"}

\* insert_chunk(...) only creates a coroutine object: its body runs when
\* asyncio.gather awaits it
InsertsRun(pc) == pc = "gather"

\* process_and_store_document is not running
IngestOff ==
    /\ in_url = ""
    /\ in_i = 0
    /\ in_tasks = <<>>
    /\ in_pending = {}
    /\ in_pc = "off"
    /\ attempts = <<>>
    /\ store = {}

\* the call process_and_store_document(url, markdown, table_name), at its
\* first statement, chunks = chunk_text(markdown)
IngestInit ==
    /\ in_url \in Urls
    /\ in_i = 0
    /\ in_tasks = <<>>
    /\ in_pending = {}
    /\ in_pc = "chunk"
    /\ attempts = <<>>
    /\ store = {}
    /\ text \in IngestTexts
    /\ chunk_size = IngestChunkSize
    /\ start = 0
    /\ chunks = <<>>
    /\ ck_pc = "loop"

\* chunk_text has returned: tasks = [] and the loop over enumerate(chunks) starts
IngestChunked ==
    /\ in_pc = "chunk"
    /\ ck_pc = "done"
    /\ in_i' = 0
    /\ in_tasks' = <<>>
    /\ in_pc' = "loop"
    /\ UNCHANGED <<in_url, in_pending, attempts, store>>
    /\ UNCHANGED <<ckVars, enVars, crVars>>

\* the loop has a next chunk: processed = await process_chunk(chunk, i, url)
IngestCall ==
    /\ in_pc = "loop"
    /\ in_i < Len(chunks)
    /\ en_chunk' = chunks[in_i + 1]
    /\ en_number' = ChunkNumber(in_i)
    /\ en_url' = in_url
    /\ en_pc' = "title"
    /\ en_completion' = NotCalled
    /\ en_reply' = NotCalled
    /\ en_title' = ""
    /\ en_summary' = ""
    /\ en_result' = None
    /\ in_pc' = "process"
    /\ UNCHANGED <<in_url, in_i, in_tasks, in_pending, attempts, store>>
    /\ UNCHANGED <<ckVars, crVars>>

\* process_chunk has returned: if processed, tasks.append(insert_chunk(...))
IngestCollect ==
    /\ in_pc = "process"
    /\ en_pc = "returned"
    /\ in_tasks' = IF Truthy(en_result) THEN Append(in_tasks, en_result) ELSE in_tasks
    /\ in_pending' = IF Truthy(en_result)
                     THEN in_pending \cup {Len(in_tasks) + 1}
                     ELSE in_pending
    /\ in_i' = in_i + 1
    /\ in_pc' = "loop"
    /\ UNCHANGED <<in_url, attempts, store>>
    /\ UNCHANGED <<ckVars, enVars, crVars>>

\* the loop is over: if tasks, await asyncio.gather(*tasks); else return
IngestGather ==
    /\ in_pc = "loop"
    /\ in_i >= Len(chunks)
    /\ in_pc' = IF in_tasks # <<>> THEN "gather" ELSE "returned"
    /\ UNCHANGED <<in_url, in_i, in_tasks, in_pending, attempts, store>>
    /\ UNCHANGED <<ckVars, enVars, crVars>>

\* one insert_chunk coroutine runs, in whatever order gather schedules them:
\* the insert is executed and either stores the row or raises; the exception
\* is caught by insert_chunk, which returns None
InsertChunk ==
    /\ InsertsRun(in_pc)
    /\ \E k \in in_pending, stored \in BOOLEAN :
        /\ attempts' = Append(attempts, InsertData(in_tasks[k]))
        /\ store' = IF stored THEN store \cup {InsertData(in_tasks[k])} ELSE store
        /\ in_pending' = in_pending \ {k}
    /\ UNCHANGED <<in_url, in_i, in_tasks, in_pc>>
    /\ UNCHANGED <<ckVars, enVars, crVars>>

\* every insert_chunk coroutine has finished: gather resumes, return
IngestReturn ==
    /\ in_pc = "gather"
    /\ in_pending = {}
    /\ in_pc' = "returned"
    /\ UNCHANGED <<in_url, in_i, in_tasks, in_pending, attempts, store>>
    /\ UNCHANGED <<ckVars, enVars, crVars>>

IngestNext ==
    \/ ChunkStep
    \/ ChunkReturn
    \/ IngestChunked
    \/ IngestCall
    \/ EnrichTitle(IngestCompletionOutcomes)
    \/ EnrichEmbedding(IngestEmbeddingOutcomes)
    \/ IngestCollect
    \/ IngestGather
    \/ InsertChunk
    \/ IngestReturn

----------------------------------------------------------------------------
(* crawl_parallel and its process_url tasks *)

NumUrls == 3
MaxConcurrent == 2

\* the positions at which a task holds a slot of the semaphore: it waits for
\* context.new_page(), page.goto(url), page.content(), page.close() (on whose
\* return it converts the HTML), or process_and_store_document
InSlot == {"new_page", "goto", "content", "close", "ingest"}

Holders == {u \in urls : task_pc[u] \in InSlot}

\* crawl_parallel is not running
CrawlOff ==
    /\ urls = {}
    /\ max_concurrent = 1
    /\ cr_pc = "off"
    /\ cr_error = FALSE
    /\ playwright = "none"
    /\ browser = "none"
    /\ context = "none"
    /\ semaphore = 0
    /\ task_pc = <<>>
    /\ outcome = <<>>
    /\ pages = {}

\* the call crawl_parallel(urls, table_name, max_concurrent), about to enter
\* async with async_playwright(); no semaphore and no task exists yet
CrawlInit ==
    /\ \E m \in 0..NumUrls : urls = 1..m
    /\ max_concurrent \in 1..MaxConcurrent
    /\ cr_pc = "start"
    /\ cr_error = FALSE
    /\ playwright = "none"
    /\ browser = "none"
    /\ context = "none"
    /\ semaphore = 0
    /\ task_pc = [u \in urls |-> "unborn"]
    /\ outcome = [u \in urls |-> "none"]
    /\ pages = {}

\* a slip: the exception leaves process_url
EscapedOutcome == "raised"

\* except Exception as e: print(...): the exception ends at the task boundary
CaughtOutcome == "failure"

\* a slip: a slot is handed out while none is free
CanAcquireOffByOne == semaphore >= 0

\* asyncio.Semaphore.acquire returns only while the value is positive
CanAcquire == semaphore > 0

\* a slip: the slot is released on the normal paths only
SemAfterExitLeaks(how) == IF how = "failure" THEN semaphore ELSE semaphore + 1

\* the exit of async with semaphore releases the slot however the body ended
SemAfterExit(how) == semaphore + 1

\* async with async_playwright() as p: the driver starts, or the call raises
CrawlStart ==
    /\ cr_pc = "start"
    /\ \E ok \in BOOLEAN :
        IF ok THEN playwright' = "started" /\ cr_pc' = "launch"
              ELSE playwright' = playwright /\ cr_pc' = "raised"
    /\ UNCHANGED <<urls, max_concurrent, cr_error, browser, context, semaphore,
                   task_pc, outcome, pages>>
    /\ UNCHANGED <<ckVars, enVars, inVars>>

\* browser = await p.chromium.launch(headless=True), outside any try
CrawlLaunch ==
    /\ cr_pc = "launch"
    /\ \E ok \in BOOLEAN :
        IF ok THEN browser' = "open" /\ cr_pc' = "new_context" /\ cr_error' = FALSE
              ELSE browser' = browser /\ cr_pc' = "exit" /\ cr_error' = TRUE
    /\ UNCHANGED <<urls, max_concurrent, playwright, context, semaphore, task_pc,
                   outcome, pages>>
    /\ UNCHANGED <<ckVars, enVars, inVars>>

\* context = await browser.new_context(...), outside any try; then the
\* semaphore is made, the tasks are listed and gather starts them
CrawlNewContext ==
    /\ cr_pc = "new_context"
    /\ \E ok \in BOOLEAN :
        IF ok
        THEN /\ context' = "open"
             /\ semaphore' = max_concurrent
             /\ task_pc' = [u \in urls |-> "acquire"]
             /\ cr_pc' = "gather"
             /\ cr_error' = FALSE
        ELSE /\ cr_pc' = "exit"
             /\ cr_error' = TRUE
             /\ UNCHANGED <<context, semaphore, task_pc>>
    /\ UNCHANGED <<urls, max_concurrent, playwright, browser, outcome, pages>>
    /\ UNCHANGED <<ckVars, enVars, inVars>>

\* the task leaves async with semaphore and ends
Finish(u, how) ==
    /\ task_pc' = [task_pc EXCEPT ![u] = "done"]
    /\ outcome' = [outcome EXCEPT ![u] = how]
    /\ semaphore' = SemAfterExit(how)

\* the task goes on to its next await, keeping its slot
Proceed(u, pc) ==
    /\ task_pc' = [task_pc EXCEPT ![u] = pc]
    /\ UNCHANGED <<outcome, semaphore>>

\* async with semaphore: a slot is taken; page = await context.new_page() begins
TaskAcquire(u) ==
    /\ u \in urls
    /\ task_pc[u] = "acquire"
    /\ CanAcquire
    /\ semaphore' = semaphore - 1
    /\ task_pc' = [task_pc EXCEPT ![u] = "new_page"]
    /\ UNCHANGED <<outcome, pages>>
    /\ UNCHANGED <<urls, max_concurrent, cr_pc, cr_error, playwright, browser, context>>
    /\ UNCHANGED <<ckVars, enVars, inVars>>

\* context.new_page() resumes: the page is open, or the call raised
TaskNewPage(u) ==
    /\ u \in urls
    /\ task_pc[u] = "new_page"
    /\ \E ok \in BOOLEAN :
        IF ok THEN Proceed(u, "goto") /\ pages' = pages \cup {u}
              ELSE Finish(u, CaughtOutcome) /\ pages' = pages
    /\ UNCHANGED <<urls, max_concurrent, cr_pc, cr_error, playwright, browser, context>>
    /\ UNCHANGED <<ckVars, enVars, inVars>>

\* page.goto(url) resumes
TaskGoto(u) ==
    /\ u \in urls
    /\ task_pc[u] = "goto"
    /\ \E ok \in BOOLEAN :
        IF ok THEN Proceed(u, "content") ELSE Finish(u, CaughtOutcome)
    /\ UNCHANGED pages
    /\ UNCHANGED <<urls, max_concurrent, cr_pc, cr_error, playwright, browser, context>>
    /\ UNCHANGED <<ckVars, enVars, inVars>>

\* page.content() resumes
TaskContent(u) ==
    /\ u \in urls
    /\ task_pc[u] = "content"
    /\ \E ok \in BOOLEAN :
        IF ok THEN Proceed(u, "close") ELSE Finish(u, CaughtOutcome)
    /\ UNCHANGED pages
    /\ UNCHANGED <<urls, max_concurrent, cr_pc, cr_error, playwright, browser, context>>
    /\ UNCHANGED <<ckVars, enVars, inVars>>

\* page.close() resumes; then the HTML is converted (BeautifulSoup, html2text),
\* which raises, yields no markdown (logged, skipped) or yields markdown, on
\* which process_and_store_document is awaited
TaskClosePage(u) ==
    /\ u \in urls
    /\ task_pc[u] = "close"
    /\ \E closed \in BOOLEAN, conversion \in {"raise", "empty", "markdown"} :
        IF ~closed THEN Finish(u, CaughtOutcome) /\ pages' = pages
        ELSE /\ pages' = pages \ {u}
             /\ IF conversion = "raise" THEN Finish(u, CaughtOutcome)
                ELSE IF conversion = "empty" THEN Finish(u, "skip")
                ELSE Proceed(u, "ingest")
    /\ UNCHANGED <<urls, max_concurrent, cr_pc, cr_error, playwright, browser, context>>
    /\ UNCHANGED <<ckVars, enVars, inVars>>

\* process_and_store_document returns (it catches every Exception of its body)
TaskIngest(u) ==
    /\ u \in urls
    /\ task_pc[u] = "ingest"
    /\ Finish(u, "success")
    /\ UNCHANGED pages
    /\ UNCHANGED <<urls, max_concurrent, cr_pc, cr_error, playwright, browser, context>>
    /\ UNCHANGED <<ckVars, enVars, inVars>>

TaskStep(u) ==
    \/ TaskAcquire(u)
    \/ TaskNewPage(u)
    \/ TaskGoto(u)
    \/ TaskContent(u)
    \/ TaskClosePage(u)
    \/ TaskIngest(u)

\* asyncio.gather without return_exceptions resumes its awaiter once every task
\* is done, or at once with the first exception that leaves a task
GatherResumes ==
    \/ \A u \in urls : task_pc[u] = "done"
    \/ \E u \in urls : outcome[u] = "raised"

\* await asyncio.gather(*tasks) resumes and the finally clause is entered
CrawlGather ==
    /\ cr_pc = "gather"
    /\ GatherResumes
    /\ cr_error' = (\E u \in urls : outcome[u] = "raised")
    /\ cr_pc' = "context_close"
    /\ UNCHANGED <<urls, max_concurrent, playwright, browser, context, semaphore,
                   task_pc, outcome, pages>>
    /\ UNCHANGED <<ckVars, enVars, inVars>>

\* finally: await context.close(); when it raises, the rest of the clause is
\* skipped and the exception propagates
CrawlContextClose ==
    /\ cr_pc = "context_close"
    /\ \E ok \in BOOLEAN :
        IF ok THEN context' = "closed" /\ cr_pc' = "browser_close" /\ cr_error' = cr_error
              ELSE context' = context /\ cr_pc' = "exit" /\ cr_error' = TRUE
    /\ UNCHANGED <<urls, max_concurrent, playwright, browser, semaphore, task_pc,
                   outcome, pages>>
    /\ UNCHANGED <<ckVars, enVars, inVars>>

\* finally: await browser.close()
CrawlBrowserClose ==
    /\ cr_pc = "browser_close"
    /\ \E ok \in BOOLEAN :
        IF ok THEN browser' = "closed" /\ cr_error' = cr_error
              ELSE browser' = browser /\ cr_error' = TRUE
    /\ cr_pc' = "exit"
    /\ UNCHANGED <<urls, max_concurrent, playwright, context, semaphore, task_pc,
                   outcome, pages>>
    /\ UNCHANGED <<ckVars, enVars, inVars>>

\* the exit of async with async_playwright(): the driver is stopped, and
\* crawl_parallel returns, or raises the exception that is propagating
CrawlExit ==
    /\ cr_pc = "exit"
    /\ playwright' = "stopped"
    /\ cr_pc' = IF cr_error THEN "raised" ELSE "returned"
    /\ UNCHANGED <<urls, max_concurrent, cr_error, browser, context, semaphore,
                   task_pc, outcome, pages>>
    /\ UNCHANGED <<ckVars, enVars, inVars>>

CrawlStep ==
    \/ CrawlStart
    \/ CrawlLaunch
    \/ CrawlNewContext
    \/ CrawlGather
    \/ CrawlContextClose
    \/ CrawlBrowserClose
    \/ CrawlExit

CrawlNext ==
    \/ CrawlStep
    \/ \E u \in 1..NumUrls : TaskStep(u)

----------------------------------------------------------------------------
(* The specifications: each runs one operation with the others at rest *)

Init == CrawlInit /\ ChunkOff /\ EnrichOff /\ IngestOff

Next == CrawlNext

\* crawl_parallel
Spec == Init /\ [][Next]_vars

\* crawl_parallel on the event loop of asyncio, which runs every callback that
\* is ready, with awaited calls that end
FairSpec ==
    /\ Spec
    /\ WF_vars(CrawlStep)
    /\ \A u \in 1..NumUrls : WF_vars(TaskStep(u))

InitChunk == ChunkInit /\ EnrichOff /\ IngestOff /\ CrawlOff

\* chunk_text
SpecChunk == InitChunk /\ [][ChunkNext]_vars

InitEnrich == EnrichInit /\ ChunkOff /\ IngestOff /\ CrawlOff

\* process_chunk
SpecEnrich == InitEnrich /\ [][EnrichNext]_vars

InitIngest == IngestInit /\ EnrichOff /\ CrawlOff

\* process_and_store_document
SpecIngest == InitIngest /\ [][IngestNext]_vars

----------------------------------------------------------------------------
(* The claims *)

\* the concatenation of a sequence of strings
RECURSIVE Flatten(_)
Flatten(ss) == IF ss = <<>> THEN <<>> ELSE Head(ss) \o Flatten(Tail(ss))

IsInk(c) == c \notin Whitespace

\* s with its whitespace deleted
NoWS(s) == SelectSeq(s, IsInk)

\* C10: the chunks emitted so far are trimmed and, with whitespace deleted,
\* concatenate to the part of the text scanned so far with whitespace deleted;
\* at the return that part is the whole text, so no character that is not
\* whitespace is lost, duplicated or moved.
C10_ChunksCoverText ==
    /\ \A i \in 1..Len(chunks) : chunks[i] = Strip(chunks[i])
    /\ NoWS(Flatten(chunks)) =
           NoWS(IF ck_pc = "done" THEN text ELSE Slice(text, 0, start))

\* a finished run that cut at a code fence and trimmed whitespace away
C10_Witness ==
    /\ ck_pc = "done"
    /\ Len(chunks) >= 2
    /\ Contains(text, Fence)
    /\ Head(chunks) = Strip(Slice(text, 0, RFind(Slice(text, 0, chunk_size), Fence)))
    /\ Len(Flatten(chunks)) < Len(text)


CompletionFailed == en_completion.kind \in {"raise", "unparsable"}

\* the backend answered the structured object {title: T, summary: S}
CompletionWellFormed ==
    /\ en_completion.kind = "json"
    /\ en_completion.value = JsonObject(<<<<"title", "T">>, <<"summary", "S">>>>)

\* C2: when the completion backend fails and the embedding backend fails,
\* process_chunk returns a structure with the placeholder title, the
\* placeholder summary and a zero vector of 1536 components.
C2_PlaceholdersOnFailure ==
    (en_pc = "returned" /\ CompletionFailed /\ en_reply.kind = "raise") =>
        /\ en_result # None
        /\ en_result.title = "Error processing title"
        /\ en_result.summary = "Error processing summary"
        /\ en_result.embedding = ZeroVector
        /\ Len(en_result.embedding) = 1536

\* C3: when the completion backend answers {title: T, summary: S} and the
\* embedding backend answers V, process_chunk(chunk, n, url) returns a
\* structure with title T, summary S, embedding V, content chunk, url url and
\* chunk_number n.
C3_FieldsFromBackends ==
    (en_pc = "returned" /\ CompletionWellFormed /\ en_reply.kind = "vector") =>
        /\ en_result # None
        /\ en_result.title = "T"
        /\ en_result.summary = "S"
        /\ en_result.embedding = en_reply.value
        /\ en_result.content = en_chunk
        /\ en_result.url = en_url
        /\ en_result.chunk_number = en_number

\* C4: whatever the two backends do, process_chunk returns a populated
\* structure, never None.
C4_NeverNone == en_pc = "returned" => en_result # None

\* the chunk numbers whose insert was executed and stored no row
FailedWrites ==
    {n \in {attempts[k].chunk_number : k \in 1..Len(attempts)} :
        \A row \in store : row.chunk_number # n}

\* C5: when process_and_store_document has returned, every chunk whose store
\* write did not fail has had its write executed and its row stored, whichever
\* writes of the other chunks failed; and the call never raises.
C5_WritesIsolated ==
    /\ in_pc # "raised"
    /\ in_pc = "returned" =>
          \A i \in 0..(Len(chunks) - 1) :
              i \notin FailedWrites =>
                  /\ \E k \in 1..Len(attempts) : attempts[k].chunk_number = i
                  /\ \E row \in store :
                        row.chunk_number = i /\ row.content = chunks[i + 1]

FinalOutcomes == {"success", "failure", "skip"}

\* the tasks have been handed to gather
Dispatched == context # "none"

\* crawl_parallel is past its await of gather
PastGather == cr_pc \in {"context_close", "browser_close", "exit", "returned", "raised"}

\* C1: at most max_concurrent URL tasks are between taking and releasing a
\* slot of the semaphore, in every reachable state.
C1_ConcurrencyCeiling == Cardinality(Holders) <= max_concurrent

\* more URLs than slots, every slot taken, and a task queued for one
C1_Witness ==
    /\ Cardinality(urls) > max_concurrent
    /\ Cardinality(Holders) = max_concurrent
    /\ \E u \in urls : task_pc[u] = "acquire"
    /\ \E u \in urls : task_pc[u] = "ingest"

\* C6: a task ends only with an outcome of its own (success, logged failure or
\* skip), never because a sibling failed, and crawl_parallel is past gather
\* only when every dispatched task has ended so.
C6_AllTasksFinish ==
    /\ \A u \in urls : task_pc[u] = "done" <=> outcome[u] # "none"
    /\ \A u \in urls : outcome[u] \in FinalOutcomes \cup {"none"}
    /\ (Dispatched /\ PastGather) =>
          \A u \in urls : task_pc[u] = "done" /\ outcome[u] \in FinalOutcomes

\* crawl_parallel has returned from a batch in which every URL failed
C6_Witness ==
    /\ cr_pc = "returned"
    /\ Cardinality(urls) = NumUrls
    /\ \A u \in urls : outcome[u] = "failure"

\* C7: crawl_parallel never raises to its caller.
C7_NeverRaises == cr_pc # "raised"

\* C8: once the browser and its context were acquired, both are closed when
\* crawl_parallel exits, and neither is closed, nor being closed, while a URL
\* task is still running.
C8_SessionClosedOnExit ==
    /\ (Dispatched /\ cr_pc \in {"returned", "raised"}) =>
          context = "closed" /\ browser = "closed"
    /\ (context = "closed" \/ browser = "closed"
            \/ cr_pc \in {"context_close", "browser_close"}) =>
          \A u \in urls : task_pc[u] = "done"

\* C9: the slots handed out and the free slots always add up to
\* max_concurrent (a slot taken is given back exactly once, on every path), so
\* all slots are free once every task is done; and under fair scheduling every
\* queued task is admitted and finishes.
C9_SlotsReleased ==
    /\ [](Dispatched => semaphore + Cardinality(Holders) = max_concurrent)
    /\ []((Dispatched /\ PastGather) => semaphore = max_concurrent)
    /\ \A u \in 1..NumUrls :
          (u \in urls /\ task_pc[u] = "acquire") ~> (u \in urls /\ task_pc[u] = "done")

\* the batch has ended with every slot free, after a failure, a skip and a
\* success among more URL tasks than slots
C9_Witness ==
    /\ cr_pc = "returned"
    /\ Cardinality(urls) > max_concurrent
    /\ semaphore = max_concurrent
    /\ \E u \in urls : outcome[u] = "failure"
    /\ \E u \in urls : outcome[u] = "skip"
    /\ \E u \in urls : outcome[u] = "success"

HasInk(s) == \E i \in 1..Len(s) : s[i] \notin Whitespace

\* C11: chunk_text terminates: every iteration that stays in the loop moves
\* start strictly forward (also when a code fence opens the window) and never
\* past the end of the text, so the loop runs at most Len(text) times; and a
\* text with a character that is not whitespace returns at least one chunk.
C11_Terminates ==
    [][ /\ ck_pc' = "loop" => start' > start /\ start' <= Len(text)
        /\ ck_pc' = "done" /\ HasInk(text) => Len(chunks') >= 1 ]_vars

\* a finished run over a text that opens with a code fence, cut several times
C11_Witness ==
    /\ ck_pc = "done"
    /\ Len(text) > chunk_size
    /\ Slice(text, 0, 3) = Fence
    /\ start > 0
    /\ Len(chunks) >= 2

\* the window of an iteration that does not reach the end of the text
InWindow == ck_pc = "loop" /\ start < Len(text) /\ start + chunk_size < Len(text)
Window == Slice(text, start, start + chunk_size)

\* the offset in the window of the last occurrence of a delimiter, or -1
LastOffset(pat) == RFind(Window, pat)

\* the delimiter occurs in the window, last at an offset above 30% of the size
Qualifies(pat) == LastOffset(pat) # -1 /\ 10 * LastOffset(pat) > 3 * chunk_size

\* the iteration cuts at end: the trimmed text[start:end] is the chunk it
\* yields, if any, and the scan resumes at end
CutAt(end) ==
    LET piece == Strip(Slice(text, start, end))
    IN  /\ start' = Max(start + 1, end)
        /\ chunks' = IF piece = <<>> THEN chunks ELSE Append(chunks, piece)

\* C12: in a window that does not reach the end of the text, a last code
\* fence past 30% of the chunk size is where the chunk is cut; otherwise a
\* last paragraph break past 30% of the chunk size is where it is cut.
C12_FenceThenParagraph ==
    [][InWindow =>
        IF Qualifies(Fence)
        THEN CutAt(start + LastOffset(Fence)) /\ start' = start + LastOffset(Fence)
        ELSE Qualifies(ParagraphBreak) =>
                /\ CutAt(start + LastOffset(ParagraphBreak))
                /\ start' = start + LastOffset(ParagraphBreak)]_vars

\* no fence and a single paragraph break at 60% of the chunk size: the first
\* chunk is the text before the break
C12_Witness ==
    /\ chunk_size = 5
    /\ Len(text) > chunk_size
    /\ ~Contains(text, Fence)
    /\ RFind(text, ParagraphBreak) = 3
    /\ chunks = <<Slice(text, 0, 3)>>
    /\ start = 3
    /\ chunks[1] # Slice(text, 0, chunk_size)

\* C13: in a window that does not reach the end of the text and in which
\* neither a fence nor a paragraph break qualifies (absent, or last not past
\* 30% of the chunk size), a last sentence break past 30% of the chunk size
\* puts the cut one character after its period, and with no qualifying
\* boundary at all the cut is at start + chunk_size.
C13_SentenceThenHardCut ==
    [][InWindow /\ ~Qualifies(Fence) /\ ~Qualifies(ParagraphBreak) =>
        IF Qualifies(SentenceBreak)
        THEN /\ CutAt(start + LastOffset(SentenceBreak) + 1)
             /\ start' = start + LastOffset(SentenceBreak) + 1
        ELSE /\ CutAt(start + chunk_size)
             /\ start' = start + chunk_size]_vars

\* the loop is over and process_chunk returned a structure for every chunk
AllEnriched == in_pc \in {"gather", "returned"} /\ Len(in_tasks) = Len(chunks)

\* the executed store writes that carry chunk number i
WritesOf(i) == {k \in 1..Len(attempts) : attempts[k].chunk_number = i}

\* C14: in a call whose n chunks were all enriched to a structure, no chunk
\* number is ever written twice, every write carries a chunk number i in
\* 0..n-1 with the i-th chunk as content, and on return each of 0..n-1 has
\* been written exactly once, in whatever order the writes ran and whichever
\* of them failed.
C14_OneWritePerChunk ==
    AllEnriched =>
        /\ \A k \in 1..Len(attempts) :
              /\ attempts[k].chunk_number \in 0..(Len(chunks) - 1)
              /\ attempts[k].content = chunks[attempts[k].chunk_number + 1]
              /\ Cardinality(WritesOf(attempts[k].chunk_number)) = 1
        /\ in_pc = "returned" =>
              \A i \in 0..(Len(chunks) - 1) : Cardinality(WritesOf(i)) = 1

\* a returned call over three chunks, all enriched, whose writes ran out of
\* chunk order and one of which failed
C14_Witness ==
    /\ in_pc = "returned"
    /\ AllEnriched
    /\ Len(chunks) = 3
    /\ Len(attempts) = 3
    /\ attempts[1].chunk_number = 2
    /\ attempts[1].content # attempts[2].content
    /\ Cardinality(store) = 2

\* C15: chunk_text returns no chunk for the empty text and, for a text that
\* is not empty and no longer than the chunk size, exactly one chunk, the
\* text without its leading and trailing whitespace.
C15_ShortText ==
    ck_pc = "done" =>
        /\ Len(text) = 0 => chunks = <<>>
        /\ (0 < Len(text) /\ Len(text) <= chunk_size) => chunks = <<Strip(text)>>

\* a returned call on a text as long as the chunk size, whose whitespace
\* at both ends was trimmed off
C15_Witness ==
    /\ ck_pc = "done"
    /\ Len(text) = chunk_size
    /\ Len(text) >= 3
    /\ text[1] \in Whitespace
    /\ text[Len(text)] \in Whitespace
    /\ chunks = <<Strip(text)>>
    /\ Len(chunks[1]) = Len(text) - 2

\* C16 as stated: the number of chunks times the chunk size is never less
\* than the length of the text divided by the chunk size, minus one (both
\* sides multiplied by the chunk size, which is positive, to stay in the
\* integers).
C16_CountBoundsLength ==
    ck_pc = "done" =>
        Len(chunks) * chunk_size * chunk_size >= Len(text) - chunk_size

\* C16, amended: the number of chunks times the chunk size is never less
\* than the number of characters of the text that are not whitespace, and so
\* never less than that number divided by the chunk size, minus one.
C16_CountBoundsInk ==
    ck_pc = "done" =>
        /\ Len(chunks) * chunk_size >= Len(NoWS(text))
        /\ Len(chunks) * chunk_size * chunk_size >= Len(NoWS(text)) - chunk_size

\* a returned call whose chunks are all full, on a text whose whitespace
\* makes it longer than the stated bound allows
C16_Witness ==
    /\ ck_pc = "done"
    /\ Len(chunks) >= 2
    /\ Len(chunks) * chunk_size = Len(NoWS(text))
    /\ Len(chunks) * chunk_size * chunk_size < Len(text) - chunk_size

\* the rows handed to the store by the step, if it executed a store write
NewWrites == IF Len(attempts') > Len(attempts)
             THEN {attempts'[k] : k \in (Len(attempts) + 1)..Len(attempts')}
             ELSE {}

\* C17: within a process_and_store_document call, the enrichment of a chunk
\* starts only in chunk order and, after the first, only once the enrichment
\* of the chunk before it has returned; a store write is executed only after
\* the enrichment of the last chunk has returned, and it writes a chunk whose
\* own enrichment has returned, with what that enrichment returned.
C17_EnrichThenWrite ==
    [][ /\ (in_pc # "process" /\ in_pc' = "process") =>
              /\ en_number' = in_i
              /\ en_chunk' = chunks[in_i + 1]
              /\ in_i > 0 => en_pc = "returned" /\ en_number = in_i - 1
        /\ \A row \in NewWrites :
              /\ in_i = Len(chunks)
              /\ in_pc # "process"
              /\ en_pc = "returned" /\ en_number = Len(chunks) - 1
              /\ row.chunk_number < in_i
              /\ \E k \in 1..Len(in_tasks) : row = InsertData(in_tasks[k]) ]_vars

\* the first store write of a call over three chunks has been executed, after
\* all three enrichments, while other writes are still to run
C17_Witness ==
    /\ in_pc = "gather"
    /\ Len(chunks) = 3
    /\ in_i = 3
    /\ en_pc = "returned"
    /\ Len(attempts) = 1
    /\ in_pending # {}

\* C18: chunk_text never emits an empty chunk: every element of the returned
\* sequence, the last one taken from the remainder of the text included, has
\* length at least 1.
C18_NoEmptyChunk ==
    ck_pc = "done" => \A i \in 1..Len(chunks) : Len(chunks[i]) >= 1

\* C19: every chunk has at most chunk_size characters, the cut of every
\* iteration that does not reach the end of the text lying after start and at
\* most chunk_size characters after it, whichever rule chose it.
C19_ChunksWithinSize ==
    [][ /\ InWindow => start < start' /\ start' <= start + chunk_size
        /\ \A i \in 1..Len(chunks') : Len(chunks'[i]) <= chunk_size ]_vars

\* a returned call with a chunk of exactly chunk_size characters and a
\* shorter one cut at a boundary
C19_Witness ==
    /\ ck_pc = "done"
    /\ chunk_size >= 3
    /\ Len(chunks) >= 2
    /\ Len(chunks[1]) < chunk_size
    /\ Len(chunks[2]) = chunk_size

\* the pages of the render session that are open
OpenPages == IF context = "open" THEN pages ELSE {}

\* C20: a URL task that has released its slot has closed the page it opened,
\* whether it ended normally or on a navigation or content failure; hence at
\* most max_concurrent pages are open in the session in every reachable state.
C20_PagesClosedInSlot ==
    /\ \A u \in urls : task_pc[u] = "done" => u \notin OpenPages
    /\ Cardinality(OpenPages) <= max_concurrent

====
